---- MODULE Spec2Model ----
(***************************************************************************)
(* Model of src/stores/index.ts: the redux store glue that restores the    *)
(* persisted state at startup, saves the state to localStorage after every *)
(* change and trims the state when the save fails.                         *)
(***************************************************************************)
EXTENDS Integers, Sequences, FiniteSets, TLC

(* ------------------------------ bounds --------------------------------- *)
\* number of game spec ids
MaxSpecs == 2
\* longest matchesList of an input of trimState
MaxMatches == 2
\* lastUpdatedOn ranges over 1..MaxTime
MaxTime == 2
\* number of phone numbers
MaxPhones == 1
\* number of store.dispatch calls in one run of the persistence model
MaxChanges == 2

(* ------------------------- program constants --------------------------- *)
\* for (let i = 0; i < 100; i++)
MaxTrims == 100

REDUX_STATE_LOCAL_STORAGE_KEY == "reduxState"

(* ------------------------------ data ----------------------------------- *)
GameSpecIds == 1..MaxSpecs
Phones == 1..MaxPhones
Times == 1..MaxTime
\* myUser: 0 is the user of storeStateDefault, 1 a signed-in user
Users == {0, 1}
\* windowDimensions: <<>> is undefined, <<w, h>> is {windowWidth, windowHeight}
Dimensions == {<<>>, <<1, 1>>}

\* A match keeps the two fields trimState reads.
Matches == [gameSpecId : GameSpecIds, lastUpdatedOn : Times]

MatchLists(n) == UNION {[1..k -> Matches] : k \in 0..n}

\* StoreState.  gameSpecs is the key set of gameSpecs.gameSpecIdToGameSpec and
\* phoneNumberToContact the key set of that mapping: trimState only deletes
\* keys and never reads or writes the records stored under them.
StoreStates(n) ==
    [gameSpecs : SUBSET GameSpecIds,
     matchesList : MatchLists(n),
     phoneNumberToContact : SUBSET Phones,
     myUser : Users,
     windowDimensions : Dimensions]

storeStateDefault ==
    [gameSpecs |-> {},
     matchesList |-> <<>>,
     phoneNumberToContact |-> {},
     myUser |-> 0,
     windowDimensions |-> <<>>]

\* The objects a run holds: the state the store returns from getState(), the
\* object deepCopy makes (in the trimState model: the object the caller
\* passes first), and the object the last return of trimState's final branch
\* created.
ObjIds == {"live", "copy", "fresh"}

VARIABLES
    heap,              \* ObjIds -> StoreState: the value of each object
    state,             \* the object the local variable `state` refers to
    input,             \* trimState model: value of the first argument
    before,            \* trimState model: value of the last call's argument before the call
    argRef,            \* trimState model: the object passed to the last call
    calls,             \* calls of trimState made (by the running or last listener run)
    backend,           \* the browser's localStorage: "works", "throws" or "absent"
    localStorage,      \* key -> text, the items stored
    hasLocalStorage,   \* line 28
    persistedOldStore, \* line 41: <<>> is undefined, <<s>> the state read
    subscribed,        \* a listener is registered with store.subscribe
    pc,                \* "load", "crashed", "idle", or "retry": inside the loop of line 98
    i,                 \* the loop variable of line 98
    changes,           \* store.dispatch calls so far
    liveWas,           \* the state the reducer returned for the last dispatch
    writes,            \* setItem calls of the running or last listener run
    failures,          \* those of them that threw
    firstErr,          \* what the first of them threw, or "none"
    lastErr,           \* what the last setItem call threw, or "none"
    anyUnavailable,    \* one of them threw something other than QuotaExceededError
    lastRun,           \* how the last listener run ended: "none", "skipped", "saved", "gaveUp"
    keyRead,           \* getItem was called for the key
    keyWritten,        \* setItem was called for the key
    window,            \* <<window.innerWidth, window.innerHeight>>
    isInUnitTests,     \* line 122: no event listener is added when true
    isThrottled,       \* line 126
    timers,            \* callbacks given to setTimeout that have not run yet
    action,            \* the object a caller of dispatch holds, as it is now
    op,                \* the last event or call: "none", "resize", "orientationchange",
                       \* "timer", "dispatch", "dispatchAgain"
    actionType,        \* Object.keys of the object the caller gave to dispatch
    threw,             \* the last call of dispatch threw
    dispatches,        \* store.dispatch calls made by the last event or call
    received,          \* the action store.dispatch received then, <<>> if none
    notified,          \* the store ran its listeners then
    stateWas,          \* the store's state before the last event or call
    wasThrottled,      \* isThrottled when the last event arrived
    timersWere         \* timers when the last event arrived

trimVars == <<input, before, argRef>>

persistVars ==
    <<backend, localStorage, hasLocalStorage, persistedOldStore, subscribed, pc, i,
      changes, liveWas, writes, failures, firstErr, lastErr, anyUnavailable, lastRun,
      keyRead, keyWritten>>

uiVars ==
    <<window, isInUnitTests, isThrottled, timers, action, op, actionType, threw,
      dispatches, received, notified, stateWas, wasThrottled, timersWere>>

vars == <<heap, state, calls, trimVars, persistVars, uiVars>>

(* ---------------------------- trimState -------------------------------- *)
\* lines 53-59: the spec ids no match refers to
gameSpecsToDelete(s) ==
    {specId \in s.gameSpecs :
        ~ \E k \in 1..Len(s.matchesList) : s.matchesList[k].gameSpecId = specId}

\* lines 70-73: matchesList.reduce((accum, curr) => accum.lastUpdatedOn >
\* curr.lastUpdatedOn ? curr : accum, matchesList[0])
RECURSIVE reduceOldest(_, _, _)
reduceOldest(list, k, accum) ==
    IF k > Len(list) THEN accum
    ELSE reduceOldest(list, k + 1,
            IF accum.lastUpdatedOn > list[k].lastUpdatedOn THEN list[k] ELSE accum)

oldestMatch(list) == reduceOldest(list, 1, list[1])

\* line 75: first index holding the element
indexOf(list, x) ==
    CHOOSE k \in 1..Len(list) : list[k] = x /\ \A j \in 1..(k - 1) : list[j] # x

\* line 76: splice(idx, 1)
splice_None(list, idx) == list

splice(list, idx) ==
    [k \in 1..(Len(list) - 1) |-> IF k < idx THEN list[k] ELSE list[k + 1]]

\* lines 52 and 60: there are specs and some of them are in no match
hasSpecsToDelete_Always(s) == s.gameSpecs # {}

hasSpecsToDelete(s) == s.gameSpecs # {} /\ gameSpecsToDelete(s) # {}

\* lines 62-64: delete state.gameSpecs.gameSpecIdToGameSpec[specId], for each

deleteGameSpecs_OnlyFirst(s) ==
    [s EXCEPT !.gameSpecs =
        s.gameSpecs \ {CHOOSE x \in gameSpecsToDelete(s) :
                          \A y \in gameSpecsToDelete(s) : x <= y}]

deleteGameSpecs(s) == [s EXCEPT !.gameSpecs = s.gameSpecs \ gameSpecsToDelete(s)]

\* lines 70-76: remove the oldest match
deleteOldestMatch_Last(s) ==
    [s EXCEPT !.matchesList =
        LET old == oldestMatch(s.matchesList)
            last == CHOOSE k \in 1..Len(s.matchesList) :
                        /\ s.matchesList[k].lastUpdatedOn = old.lastUpdatedOn
                        /\ \A j \in (k + 1)..Len(s.matchesList) :
                              s.matchesList[j].lastUpdatedOn # old.lastUpdatedOn
        IN splice(s.matchesList, last)]

deleteOldestMatch(s) ==
    [s EXCEPT !.matchesList =
        splice(s.matchesList, indexOf(s.matchesList, oldestMatch(s.matchesList)))]

\* line 80: state.phoneNumberToContact = {}
clearContacts_AndDimensions(s) ==
    [s EXCEPT !.phoneNumberToContact = {}, !.windowDimensions = <<>>]

clearContacts(s) == [s EXCEPT !.phoneNumberToContact = {}]

\* line 84: { ...storeStateDefault, myUser: state.myUser }
justMyUser_Dropped(s) == storeStateDefault

justMyUser(s) == [storeStateDefault EXCEPT !.myUser = s.myUser]

trimState_Pure(h, r) ==
    LET s == h[r]
        v == IF hasSpecsToDelete(s) THEN deleteGameSpecs(s)
             ELSE IF Len(s.matchesList) > 0 THEN deleteOldestMatch(s)
             ELSE IF s.phoneNumberToContact # {} THEN clearContacts(s)
             ELSE justMyUser(s)
    IN [heap |-> [h EXCEPT !["fresh"] = v], ret |-> "fresh"]

\* trimState(state) called with the object r of heap h.  The first three
\* branches change the object passed and return it; the last one returns a
\* new object and leaves the one passed alone.
trimState(h, r) ==
    LET s == h[r] IN
    IF hasSpecsToDelete(s)
    THEN [heap |-> [h EXCEPT ![r] = deleteGameSpecs(s)], ret |-> r]
    ELSE IF Len(s.matchesList) > 0
    THEN [heap |-> [h EXCEPT ![r] = deleteOldestMatch(s)], ret |-> r]
    ELSE IF s.phoneNumberToContact # {}
    THEN [heap |-> [h EXCEPT ![r] = clearContacts(s)], ret |-> r]
    ELSE [heap |-> [h EXCEPT !["fresh"] = justMyUser(s)], ret |-> "fresh"]

(* ------------------ trimState applied again and again ------------------ *)
MaxCalls == MaxSpecs + MaxMatches + 3

NoObjects == [o \in ObjIds |-> storeStateDefault]

\* trimState is called on its own: nothing is loaded, stored or dispatched
NoPersistence ==
    /\ backend = "absent"
    /\ localStorage = <<>>
    /\ hasLocalStorage = FALSE
    /\ persistedOldStore = <<>>
    /\ subscribed = FALSE
    /\ pc = "load"
    /\ i = 0
    /\ changes = 0
    /\ liveWas = storeStateDefault
    /\ writes = 0
    /\ failures = 0
    /\ firstErr = "none"
    /\ lastErr = "none"
    /\ anyUnavailable = FALSE
    /\ lastRun = "none"
    /\ keyRead = FALSE
    /\ keyWritten = FALSE

\* no window event arrives and no caller dispatches
NoUI ==
    /\ window = <<1, 1>>
    /\ isInUnitTests = TRUE
    /\ isThrottled = FALSE
    /\ timers = 0
    /\ action = <<>>
    /\ op = "none"
    /\ actionType = {}
    /\ threw = FALSE
    /\ dispatches = 0
    /\ received = <<>>
    /\ notified = FALSE
    /\ stateWas = storeStateDefault
    /\ wasThrottled = FALSE
    /\ timersWere = 0

InitTrim ==
    /\ \E s \in StoreStates(MaxMatches) :
          /\ heap = [NoObjects EXCEPT !["copy"] = s]
          /\ input = s
          /\ before = s
    /\ state = "copy"
    /\ argRef = "copy"
    /\ calls = 0
    /\ NoPersistence
    /\ NoUI

\* state = trimState(state)
TrimCall ==
    /\ calls < MaxCalls
    /\ LET t == trimState(heap, state) IN
          /\ heap' = t.heap
          /\ state' = t.ret
    /\ before' = heap[state]
    /\ argRef' = state
    /\ calls' = calls + 1
    /\ UNCHANGED <<input, persistVars, uiVars>>

NextTrim == TrimCall

SpecTrim == InitTrim /\ [][NextTrim]_vars

(* ------------------------------- codec --------------------------------- *)
\* A text is a sequence of tokens <<tag, a, b>>; the empty text is <<>>.
RECURSIVE keysInOrder(_)
keysInOrder(S) ==
    IF S = {} THEN <<>>
    ELSE LET m == CHOOSE x \in S : \A y \in S : x <= y
         IN <<m>> \o keysInOrder(S \ {m})

\* JSON.stringify(state): a key whose value is undefined is left out
JSONstringify(s) ==
    LET specs == keysInOrder(s.gameSpecs)
        phones == keysInOrder(s.phoneNumberToContact)
    IN <<<<"{", 0, 0>>>>
       \o [k \in 1..Len(specs) |-> <<"gameSpec", specs[k], 0>>]
       \o [k \in 1..Len(s.matchesList) |->
             <<"match", s.matchesList[k].gameSpecId, s.matchesList[k].lastUpdatedOn>>]
       \o [k \in 1..Len(phones) |-> <<"contact", phones[k], 0>>]
       \o <<<<"myUser", s.myUser, 0>>>>
       \o (IF s.windowDimensions = <<>> THEN <<>>
           ELSE <<<<"windowDimensions", s.windowDimensions[1], s.windowDimensions[2]>>>>)
       \o <<<<"}", 0, 0>>>>

\* JSON.parse accepts the text (it throws a SyntaxError otherwise)
parses(text) ==
    /\ Len(text) >= 2
    /\ text[1][1] = "{"
    /\ text[Len(text)][1] = "}"
    /\ \A k \in 2..(Len(text) - 1) :
          text[k][1] \in {"gameSpec", "match", "contact", "myUser", "windowDimensions"}
    /\ Cardinality({k \in 1..Len(text) : text[k][1] = "myUser"}) = 1
    /\ Cardinality({k \in 1..Len(text) : text[k][1] = "windowDimensions"}) <= 1

tagged(text, tag) == SelectSeq(text, LAMBDA tok : tok[1] = tag)

\* JSON.parse(text) of a text it accepts
JSONparse(text) ==
    LET ms == tagged(text, "match")
        ds == tagged(text, "windowDimensions")
    IN [gameSpecs |-> {text[k][2] : k \in {j \in 1..Len(text) : text[j][1] = "gameSpec"}},
        matchesList |->
            [k \in 1..Len(ms) |-> [gameSpecId |-> ms[k][2], lastUpdatedOn |-> ms[k][3]]],
        phoneNumberToContact |->
            {text[k][2] : k \in {j \in 1..Len(text) : text[j][1] = "contact"}},
        myUser |-> tagged(text, "myUser")[1][2],
        windowDimensions |-> IF ds = <<>> THEN <<>> ELSE <<ds[1][2], ds[1][3]>>]

(* ---------------------------- localStorage ----------------------------- *)
NoItems == [k \in {} |-> <<>>]

\* localStorage.getItem(key); null, like the empty text, is <<>>: the one
\* caller (line 34) only tests whether the value is falsy
getItem(ls, key) == IF key \in DOMAIN ls THEN ls[key] ELSE <<>>

\* localStorage.setItem(key, text), when it does not throw
setItem(ls, key, text) ==
    [k \in DOMAIN ls \cup {key} |-> IF k = key THEN text ELSE ls[k]]

\* what a setItem call that throws may throw
WriteErrors == {"QuotaExceeded", "Unavailable"}

(* ------------------------------ startup -------------------------------- *)
\* lines 13-25: the backend is there and the test write does not throw
checkIfLocalStorageWorks(b) == b = "works"

\* lines 30-39; threw: JSON.parse threw and nothing caught it; read: getItem
\* was called
restoreOldState_Unguarded(has, ls) ==
    LET oldStateStr == getItem(ls, REDUX_STATE_LOCAL_STORAGE_KEY) IN
    IF oldStateStr # <<>>
    THEN IF parses(oldStateStr)
         THEN [threw |-> FALSE, oldState |-> <<JSONparse(oldStateStr)>>, read |-> TRUE]
         ELSE [threw |-> TRUE, oldState |-> <<>>, read |-> TRUE]
    ELSE [threw |-> FALSE, oldState |-> <<>>, read |-> TRUE]

restoreOldState(has, ls) ==
    IF has
    THEN LET oldStateStr == getItem(ls, REDUX_STATE_LOCAL_STORAGE_KEY) IN
         IF oldStateStr # <<>>
         THEN IF parses(oldStateStr)
              THEN [threw |-> FALSE, oldState |-> <<JSONparse(oldStateStr)>>, read |-> TRUE]
              ELSE [threw |-> TRUE, oldState |-> <<>>, read |-> TRUE]
         ELSE [threw |-> FALSE, oldState |-> <<>>, read |-> TRUE]
    ELSE [threw |-> FALSE, oldState |-> <<>>, read |-> FALSE]

\* lines 87-88 and 112: persistNewState() calls store.subscribe whatever
\* hasLocalStorage is
subscribes_OnlyWithStorage(has) == has

subscribes(has) == TRUE

\* lines 44-46
saveStateInLocalStorage_WrongKey(ls, s) == setItem(ls, "testLocalStorage", JSONstringify(s))

saveStateInLocalStorage(ls, s) ==
    setItem(ls, REDUX_STATE_LOCAL_STORAGE_KEY, JSONstringify(s))

\* a text cut off before its end, and a state saved by an earlier run
TruncatedText == <<<<"{", 0, 0>>, <<"myUser", 1, 0>>>>

SavedBefore == [storeStateDefault EXCEPT !.myUser = 1, !.phoneNumberToContact = {1}]

Init ==
    /\ backend \in {"works", "throws", "absent"}
    /\ localStorage \in
          {NoItems,
           setItem(NoItems, REDUX_STATE_LOCAL_STORAGE_KEY, <<>>),
           setItem(NoItems, REDUX_STATE_LOCAL_STORAGE_KEY, TruncatedText),
           setItem(NoItems, REDUX_STATE_LOCAL_STORAGE_KEY, JSONstringify(SavedBefore))}
    /\ heap = NoObjects
    /\ state = "live"
    /\ calls = 0
    /\ input = storeStateDefault
    /\ before = storeStateDefault
    /\ argRef = "copy"
    /\ hasLocalStorage = FALSE
    /\ persistedOldStore = <<>>
    /\ subscribed = FALSE
    /\ pc = "load"
    /\ i = 0
    /\ changes = 0
    /\ liveWas = storeStateDefault
    /\ writes = 0
    /\ failures = 0
    /\ firstErr = "none"
    /\ lastErr = "none"
    /\ anyUnavailable = FALSE
    /\ lastRun = "none"
    /\ keyRead = FALSE
    /\ keyWritten = FALSE
    /\ NoUI

\* The module is loaded: lines 28 (probe), 41 (restore), 42 (createStore) and
\* 112 (subscribe).  An exception of line 41 ends the load there.
LoadModule ==
    /\ pc = "load"
    /\ hasLocalStorage' = checkIfLocalStorageWorks(backend)
    /\ LET old == restoreOldState(hasLocalStorage', localStorage) IN
          /\ keyRead' = old.read
          /\ IF old.threw
             THEN /\ pc' = "crashed"
                  /\ UNCHANGED <<persistedOldStore, subscribed>>
             ELSE /\ pc' = "idle"
                  /\ persistedOldStore' = old.oldState
                  /\ subscribed' = subscribes(hasLocalStorage')
    /\ UNCHANGED <<heap, state, calls, trimVars, uiVars, backend, localStorage, i, changes,
                   liveWas, writes, failures, firstErr, lastErr, anyUnavailable, lastRun,
                   keyWritten>>

(* ---------------------------- state changes ---------------------------- *)
\* The states the reducer may return for one action on s at time now: a game
\* spec is loaded, a match is added or updated now, a contact is added, the
\* user signs in.
reducerResults(s, now) ==
    {[s EXCEPT !.gameSpecs = @ \cup {id}] : id \in GameSpecIds \ s.gameSpecs}
    \cup {[s EXCEPT !.matchesList = Append(@, [gameSpecId |-> g, lastUpdatedOn |-> now])] :
            g \in GameSpecIds}
    \cup {[s EXCEPT !.phoneNumberToContact = @ \cup {p}] :
            p \in Phones \ s.phoneNumberToContact}
    \cup {[s EXCEPT !.myUser = 1]}

\* deepCopy(state): a new object with an equal value
deepCopy(s) == s

\* line 97: state = deepCopy(state)
copyOfState_Aliased(h) == [heap |-> h, ret |-> "live"]

copyOfState(h) == [heap |-> [h EXCEPT !["copy"] = deepCopy(h["live"])], ret |-> "copy"]

\* line 98: i < 100
loopContinues_OneMore(n) == n <= MaxTrims

loopContinues(n) == n < MaxTrims

\* lines 100-101: state = trimState(state); saveStateInLocalStorage(state):
\* the state that is saved
savedByRetry_Untrimmed(h, r) == h[r]

savedByRetry(h, r) == LET t == trimState(h, r) IN t.heap[t.ret]

\* the listener returns: its local objects are dropped
released(h) == [h EXCEPT !["copy"] = storeStateDefault, !["fresh"] = storeStateDefault]

\* store.dispatch with no listener, or the listener finds hasLocalStorage
\* false (line 89) and returns
StateChangeUnsaved ==
    /\ pc = "idle"
    /\ changes < MaxChanges
    /\ ~ (subscribed /\ hasLocalStorage)
    /\ \E s \in reducerResults(heap["live"], changes + 1) :
          /\ heap' = [heap EXCEPT !["live"] = s]
          /\ liveWas' = s
    /\ changes' = changes + 1
    /\ calls' = 0
    /\ writes' = 0
    /\ failures' = 0
    /\ firstErr' = "none"
    /\ lastErr' = "none"
    /\ anyUnavailable' = FALSE
    /\ lastRun' = "skipped"
    /\ UNCHANGED <<state, trimVars, uiVars, backend, localStorage, hasLocalStorage,
                   persistedOldStore, subscribed, pc, i, keyRead, keyWritten>>

\* store.dispatch, and the listener's first save (lines 90-93) succeeds
StateChangeSaved ==
    /\ pc = "idle"
    /\ changes < MaxChanges
    /\ subscribed /\ hasLocalStorage
    /\ \E s \in reducerResults(heap["live"], changes + 1) :
          /\ heap' = [heap EXCEPT !["live"] = s]
          /\ liveWas' = s
          /\ localStorage' = saveStateInLocalStorage(localStorage, s)
    /\ changes' = changes + 1
    /\ calls' = 0
    /\ writes' = 1
    /\ failures' = 0
    /\ firstErr' = "none"
    /\ lastErr' = "none"
    /\ anyUnavailable' = FALSE
    /\ lastRun' = "saved"
    /\ keyWritten' = TRUE
    /\ UNCHANGED <<state, trimVars, uiVars, backend, hasLocalStorage, persistedOldStore,
                   subscribed, pc, i, keyRead>>

\* store.dispatch, the listener's first save throws e, and the catch of line
\* 94 copies the state and enters the loop (lines 97-98)
StateChangeSaveFailed ==
    /\ pc = "idle"
    /\ changes < MaxChanges
    /\ subscribed /\ hasLocalStorage
    /\ \E s \in reducerResults(heap["live"], changes + 1), e \in WriteErrors :
          /\ LET c == copyOfState([heap EXCEPT !["live"] = s]) IN
                /\ heap' = c.heap
                /\ state' = c.ret
          /\ liveWas' = s
          /\ firstErr' = e
          /\ lastErr' = e
          /\ anyUnavailable' = (e = "Unavailable")
    /\ changes' = changes + 1
    /\ calls' = 0
    /\ writes' = 1
    /\ failures' = 1
    /\ lastRun' = "none"
    /\ i' = 0
    /\ pc' = "retry"
    /\ keyWritten' = TRUE
    /\ UNCHANGED <<trimVars, uiVars, backend, localStorage, hasLocalStorage, persistedOldStore,
                   subscribed, keyRead>>

\* one pass of the loop body, lines 99-102: trim, save, return
RetrySaved ==
    /\ pc = "retry"
    /\ LET t == trimState(heap, state) IN
          /\ localStorage' = saveStateInLocalStorage(localStorage, savedByRetry(heap, state))
          /\ heap' = released(t.heap)
    /\ state' = "live"
    /\ calls' = calls + 1
    /\ writes' = writes + 1
    /\ lastErr' = "none"
    /\ lastRun' = "saved"
    /\ i' = 0
    /\ pc' = "idle"
    /\ UNCHANGED <<trimVars, uiVars, backend, hasLocalStorage, persistedOldStore, subscribed,
                   changes, liveWas, failures, firstErr, anyUnavailable, keyRead, keyWritten>>

\* one pass of the loop body whose save throws e (lines 99-105), then i++ and
\* the test of line 98; the listener returns when the test fails
RetryFailed ==
    /\ pc = "retry"
    /\ \E e \in WriteErrors :
          /\ lastErr' = e
          /\ anyUnavailable' = (anyUnavailable \/ e = "Unavailable")
    /\ calls' = calls + 1
    /\ writes' = writes + 1
    /\ failures' = failures + 1
    /\ LET t == trimState(heap, state) IN
          IF loopContinues(i + 1)
          THEN /\ heap' = t.heap
               /\ state' = t.ret
               /\ i' = i + 1
               /\ UNCHANGED <<pc, lastRun>>
          ELSE /\ heap' = released(t.heap)
               /\ state' = "live"
               /\ i' = 0
               /\ pc' = "idle"
               /\ lastRun' = "gaveUp"
    /\ UNCHANGED <<trimVars, uiVars, backend, localStorage, hasLocalStorage, persistedOldStore,
                   subscribed, changes, liveWas, firstErr, keyRead, keyWritten>>

Next ==
    \/ LoadModule
    \/ StateChangeUnsaved
    \/ StateChangeSaved
    \/ StateChangeSaveFailed
    \/ RetrySaved
    \/ RetryFailed

Spec == Init /\ [][Next]_vars

(* ----------------------- dispatch and window events --------------------- *)
\* The largest window.innerWidth and window.innerHeight
MaxSide == 2

Windows == (1..MaxSide) \X (1..MaxSide)

\* An object with no key
NoKeys == [k \in {} |-> 0]

\* The objects a caller gives to dispatch: each key is the name of a member
\* of Action.  `type` is none of them: line 115 needs the cast to any to
\* assign it.
ActionObjects ==
    {NoKeys}
    \cup {[setWindowDimensions |-> w] : w \in Windows}
    \cup {[setMyUser |-> u] : u \in Users}
    \cup {[setWindowDimensions |-> w, setMyUser |-> u] : w \in Windows, u \in Users}

\* checkCondition(name, cond) throws unless cond holds
checkCondition(cond) == cond

\* line 117: actionType.length === 1
oneKey_AtLeast(keys) == Cardinality(keys) >= 1

oneKey(keys) == Cardinality(keys) = 1

\* line 118: actionWithType is the caller's object, so the assignment adds
\* the key to it; caller: the caller's object, sent: the one given to
\* store.dispatch on line 119
addType_OnCopy(a, k) ==
    [caller |-> a,
     sent |-> [x \in DOMAIN a \cup {"type"} |-> IF x = "type" THEN k ELSE a[x]]]

addType(a, k) ==
    LET actionWithType == [x \in DOMAIN a \cup {"type"} |-> IF x = "type" THEN k ELSE a[x]]
    IN [caller |-> actionWithType, sent |-> actionWithType]

\* The state the reducer returns for a window or user action
reducer(s, a) ==
    LET s1 == IF "setWindowDimensions" \in DOMAIN a
              THEN [s EXCEPT !.windowDimensions = a["setWindowDimensions"]]
              ELSE s
    IN IF "setMyUser" \in DOMAIN a THEN [s1 EXCEPT !.myUser = a["setMyUser"]] ELSE s1

\* lines 114-120 on store state s
dispatch(s, a) ==
    LET keys == DOMAIN a IN
    IF ~ checkCondition(oneKey(keys))
    THEN [threw |-> TRUE, action |-> a, state |-> s, dispatches |-> 0,
          received |-> <<>>]
    ELSE LET t == addType(a, CHOOSE k \in keys : TRUE) IN
         [threw |-> FALSE, action |-> t.caller, state |-> reducer(s, t.sent),
          dispatches |-> 1, received |-> t.sent]

\* lines 143-147
sameDimensions_Never(windowDimensions, win) == FALSE

sameDimensions(windowDimensions, win) ==
    /\ windowDimensions # <<>>
    /\ windowDimensions[1] = win[1]
    /\ windowDimensions[2] = win[2]

\* lines 139-157
setDimensions(s, win) ==
    IF sameDimensions(s.windowDimensions, win)
    THEN [state |-> s, dispatches |-> 0, received |-> <<>>]
    ELSE LET d == dispatch(s, [setWindowDimensions |-> win]) IN
         [state |-> d.state, dispatches |-> d.dispatches, received |-> d.received]

\* lines 130-133, the function given to setTimeout
callback_NoTrailingUpdate(s, win) ==
    [state |-> s, dispatches |-> 0, received |-> <<>>, isThrottled |-> FALSE]

callback(s, win) ==
    LET d == setDimensions(s, win) IN
    [state |-> d.state, dispatches |-> d.dispatches, received |-> d.received,
     isThrottled |-> FALSE]

\* lines 127-137
handleResize_TimerPerEvent(s, win, throttled, pending) ==
    IF ~ throttled
    THEN LET d == setDimensions(s, win) IN
         [state |-> d.state, dispatches |-> d.dispatches, received |-> d.received,
          isThrottled |-> TRUE, timers |-> pending + 1]
    ELSE [state |-> s, dispatches |-> 0, received |-> <<>>,
          isThrottled |-> throttled, timers |-> pending + 1]

handleResize(s, win, throttled, pending) ==
    IF ~ throttled
    THEN LET d == setDimensions(s, win) IN
         [state |-> d.state, dispatches |-> d.dispatches, received |-> d.received,
          isThrottled |-> TRUE, timers |-> pending + 1]
    ELSE [state |-> s, dispatches |-> 0, received |-> <<>>,
          isThrottled |-> throttled, timers |-> pending]

\* The module has been loaded in a browser without localStorage, so that the
\* listener of line 88 returns at line 89 each time it runs.
InitUI ==
    /\ heap = NoObjects
    /\ state = "live"
    /\ calls = 0
    /\ input = storeStateDefault
    /\ before = storeStateDefault
    /\ argRef = "copy"
    /\ backend = "absent"
    /\ localStorage = NoItems
    /\ hasLocalStorage = checkIfLocalStorageWorks("absent")
    /\ persistedOldStore = <<>>
    /\ subscribed = subscribes(FALSE)
    /\ pc = "idle"
    /\ i = 0
    /\ changes = 0
    /\ liveWas = storeStateDefault
    /\ writes = 0
    /\ failures = 0
    /\ firstErr = "none"
    /\ lastErr = "none"
    /\ anyUnavailable = FALSE
    /\ lastRun = "none"
    /\ keyRead = FALSE
    /\ keyWritten = FALSE
    /\ window \in Windows
    /\ isInUnitTests \in BOOLEAN
    /\ isThrottled = FALSE
    /\ timers = 0
    /\ action = NoKeys
    /\ op = "none"
    /\ actionType = {}
    /\ threw = FALSE
    /\ dispatches = 0
    /\ received = <<>>
    /\ notified = FALSE
    /\ stateWas = storeStateDefault
    /\ wasThrottled = FALSE
    /\ timersWere = 0

\* what a window event does once the window has the size win: handleResize
\* runs if line 123 or 124 registered it
WindowEvent(name, win) ==
    /\ window' = win
    /\ op' = name
    /\ stateWas' = heap["live"]
    /\ wasThrottled' = isThrottled
    /\ timersWere' = timers
    /\ actionType' = {}
    /\ threw' = FALSE
    /\ IF isInUnitTests
       THEN /\ dispatches' = 0
            /\ received' = <<>>
            /\ notified' = FALSE
            /\ UNCHANGED <<heap, isThrottled, timers>>
       ELSE LET r == handleResize(heap["live"], win, isThrottled, timers) IN
            /\ heap' = [heap EXCEPT !["live"] = r.state]
            /\ dispatches' = r.dispatches
            /\ received' = r.received
            /\ notified' = (subscribed /\ r.dispatches > 0)
            /\ isThrottled' = r.isThrottled
            /\ timers' = r.timers
    /\ UNCHANGED <<state, calls, trimVars, persistVars, isInUnitTests, action>>

\* the window is resized to any size and 'resize' is delivered
ResizeEvent == \E win \in Windows : WindowEvent("resize", win)

\* the device is turned and 'orientationchange' is delivered
OrientationChangeEvent == WindowEvent("orientationchange", <<window[2], window[1]>>)

\* 250 ms after a setTimeout its callback runs
TimerExpires ==
    /\ timers > 0
    /\ op' = "timer"
    /\ stateWas' = heap["live"]
    /\ wasThrottled' = isThrottled
    /\ timersWere' = timers
    /\ actionType' = {}
    /\ threw' = FALSE
    /\ LET r == callback(heap["live"], window) IN
          /\ heap' = [heap EXCEPT !["live"] = r.state]
          /\ dispatches' = r.dispatches
          /\ received' = r.received
          /\ notified' = (subscribed /\ r.dispatches > 0)
          /\ isThrottled' = r.isThrottled
    /\ timers' = timers - 1
    /\ UNCHANGED <<state, calls, trimVars, persistVars, window, isInUnitTests, action>>

\* a caller's dispatch(a), a being the object the caller holds
CallOfDispatch(name, a) ==
    /\ op' = name
    /\ stateWas' = heap["live"]
    /\ wasThrottled' = isThrottled
    /\ timersWere' = timers
    /\ actionType' = DOMAIN a
    /\ LET d == dispatch(heap["live"], a) IN
          /\ heap' = [heap EXCEPT !["live"] = d.state]
          /\ action' = d.action
          /\ threw' = d.threw
          /\ dispatches' = d.dispatches
          /\ received' = d.received
          /\ notified' = (subscribed /\ d.dispatches > 0)
    /\ UNCHANGED <<state, calls, trimVars, persistVars, window, isInUnitTests,
                   isThrottled, timers>>

\* dispatch of a new object
Dispatch == \E a \in ActionObjects : CallOfDispatch("dispatch", a)

\* dispatch of the object given to the last call
DispatchAgain ==
    /\ op \in {"dispatch", "dispatchAgain"}
    /\ CallOfDispatch("dispatchAgain", action)

NextUI ==
    \/ ResizeEvent
    \/ OrientationChangeEvent
    \/ TimerExpires
    \/ Dispatch
    \/ DispatchAgain

SpecUI == InitUI /\ [][NextUI]_vars

(* -------------------- claims about the change listener ----------------- *)
\* the text stored under the key
Stored == getItem(localStorage, REDUX_STATE_LOCAL_STORAGE_KEY)

\* the value trimState returns for an argument of value s
TrimValue(s) ==
    LET t == trimState([o \in ObjIds |-> s], "copy") IN t.heap[t.ret]

\* s after k calls; a value trimState returns unchanged stays as it is
RECURSIVE Trimmed(_, _)
Trimmed(s, k) ==
    IF k = 0 THEN s
    ELSE LET n == TrimValue(s) IN IF n = s THEN s ELSE Trimmed(n, k - 1)

\* C1: while every save of a listener run throws QuotaExceeded, the run has
\* called trimState at most 100 times; after the 100th call it has returned
\* (no exception left it) and the store takes the next state change.
C1_GivesUpAfter100Trims ==
    (firstErr = "QuotaExceeded" /\ ~ anyUnavailable) =>
        /\ calls <= MaxTrims
        /\ pc \in {"retry", "idle"}
        /\ (pc = "retry" => calls < MaxTrims /\ failures = calls + 1)
        /\ (pc = "idle" /\ lastRun = "gaveUp" =>
                /\ calls = MaxTrims
                /\ failures = MaxTrims + 1
                /\ (changes < MaxChanges => ENABLED StateChangeSaved))

C1_Witness ==
    /\ pc = "idle"
    /\ lastRun = "gaveUp"
    /\ firstErr = "QuotaExceeded"
    /\ ~ anyUnavailable
    /\ calls = MaxTrims
    /\ changes < MaxChanges

\* C2: the state store.getState() returns is the one the reducer returned for
\* the last dispatch, whatever the listener did since: it trims a copy only.
C2_LiveStateUntouched == heap["live"] = liveWas

C2_Witness ==
    /\ pc = "retry"
    /\ calls >= 2
    /\ state = "copy"
    /\ heap["copy"] # heap["live"]
    /\ heap["live"] = liveWas

\* C3: when the first save threw QuotaExceeded and a later one succeeded, the
\* listener returned at that save: every save before it threw, and the text
\* stored is that of the live state trimmed as many times as saves threw,
\* a number in 1..100.
C3_StopsAtFirstSuccess ==
    (pc = "idle" /\ lastRun = "saved" /\ firstErr = "QuotaExceeded") =>
        /\ calls \in 1..MaxTrims
        /\ failures = calls
        /\ writes = calls + 1
        /\ Stored = JSONstringify(Trimmed(heap["live"], calls))

C3_Witness ==
    /\ pc = "idle"
    /\ lastRun = "saved"
    /\ firstErr = "QuotaExceeded"
    /\ calls = 2
    /\ Trimmed(heap["live"], 1) # heap["live"]
    /\ Trimmed(heap["live"], 2) # Trimmed(heap["live"], 1)
    /\ Stored = JSONstringify(Trimmed(heap["live"], 2))

\* C4: once a save has thrown something other than QuotaExceeded, the
\* listener calls neither trimState nor setItem again for that state change.
C4_AbandonsOnUnavailable ==
    [][(pc = "retry" /\ lastErr = "Unavailable") =>
          (calls' = calls /\ writes' = writes)]_vars

\* C5: loading the module never ends in an exception, whatever text is
\* stored under the key.
C5_StartupNeverAborts == pc # "crashed"

(* ----------------------- claims about trimState ------------------------ *)
\* the value trimState returned last
Result == heap[state]

\* the specification-records no match-record refers to
Orphans(s) ==
    {id \in s.gameSpecs : \A k \in DOMAIN s.matchesList : s.matchesList[k].gameSpecId # id}

RemoveAt(list, k) == SubSeq(list, 1, k - 1) \o SubSeq(list, k + 1, Len(list))

\* the state trimming ends in: the default state with the user of s
EndState(s) ==
    [gameSpecs |-> {}, matchesList |-> <<>>, phoneNumberToContact |-> {},
     myUser |-> s.myUser, windowDimensions |-> <<>>]

\* C6: when some specification-record is referenced by no match, one call of
\* trimState removes all the unreferenced specification-records and only
\* them, and leaves the matches, the contacts and the other fields as they were.
C6_Step1DeletesAllOrphans ==
    (calls > 0 /\ Orphans(before) # {}) =>
        /\ Result.gameSpecs = before.gameSpecs \ Orphans(before)
        /\ Result.matchesList = before.matchesList
        /\ Result.phoneNumberToContact = before.phoneNumberToContact
        /\ Result.myUser = before.myUser
        /\ Result.windowDimensions = before.windowDimensions

C6_Witness ==
    /\ calls > 0
    /\ Orphans(before) # {}
    /\ Result.gameSpecs # {}
    /\ Result.gameSpecs # before.gameSpecs
    /\ Len(before.matchesList) = 2
    /\ before.phoneNumberToContact # {}

\* C7: with no unreferenced specification-record and a non-empty match list,
\* one call removes exactly one match, the first in list order among those
\* with the least lastUpdatedOn; the other matches keep their order and the
\* specification-records and contacts are unchanged.
C7_Step2DeletesOldestFirst ==
    (calls > 0 /\ Orphans(before) = {} /\ Len(before.matchesList) > 0) =>
        /\ \E k \in 1..Len(before.matchesList) :
              /\ \A j \in 1..Len(before.matchesList) :
                    before.matchesList[k].lastUpdatedOn <= before.matchesList[j].lastUpdatedOn
              /\ \A j \in 1..(k - 1) :
                    before.matchesList[j].lastUpdatedOn > before.matchesList[k].lastUpdatedOn
              /\ Result.matchesList = RemoveAt(before.matchesList, k)
        /\ Result.gameSpecs = before.gameSpecs
        /\ Result.phoneNumberToContact = before.phoneNumberToContact
        /\ Result.myUser = before.myUser
        /\ Result.windowDimensions = before.windowDimensions

C7_Witness ==
    /\ calls > 0
    /\ Orphans(before) = {}
    /\ Len(before.matchesList) = 2
    /\ before.matchesList[1].lastUpdatedOn = before.matchesList[2].lastUpdatedOn
    /\ before.matchesList[1] # before.matchesList[2]
    /\ Result.matchesList = <<before.matchesList[2]>>

\* C8: with no unreferenced specification-record, no match and some contact,
\* one call empties the contact mapping and changes nothing else.
C8_Step3ClearsContacts ==
    (calls > 0 /\ Orphans(before) = {} /\ before.matchesList = <<>>
        /\ before.phoneNumberToContact # {}) =>
        /\ Result.phoneNumberToContact = {}
        /\ Result.gameSpecs = before.gameSpecs
        /\ Result.matchesList = before.matchesList
        /\ Result.myUser = before.myUser
        /\ Result.windowDimensions = before.windowDimensions

C8_Witness ==
    /\ calls > 0
    /\ Orphans(before) = {}
    /\ before.matchesList = <<>>
    /\ before.phoneNumberToContact # {}
    /\ before.myUser = 1
    /\ before.windowDimensions # <<>>
    /\ Result.phoneNumberToContact = {}

\* C9: with no specification-record, no match and no contact, one call
\* returns the default state with the user of its argument, and a call on
\* that result returns an equal state.
C9_Step4DefaultIsFixedPoint ==
    (calls > 0 /\ before.gameSpecs = {} /\ before.matchesList = <<>>
        /\ before.phoneNumberToContact = {}) =>
        /\ Result = EndState(before)
        /\ (before = EndState(before) => Result = before)

C9_Witness ==
    /\ calls > 1
    /\ before = EndState(input)
    /\ before.myUser = 1
    /\ Result = before
    /\ input.windowDimensions # <<>>

\* C10: after |specification-records| + |matches| + 2 calls, counted on the
\* first argument, the state is the default state with the first argument's
\* user, and every later call returns it again.
C10_FixedPointWithinBound ==
    calls >= Cardinality(input.gameSpecs) + Len(input.matchesList) + 2 =>
        Result = EndState(input)

\* a run that needs every call the bound allows
C10_Witness ==
    /\ calls = Cardinality(input.gameSpecs) + Len(input.matchesList) + 2
    /\ Cardinality(input.gameSpecs) = 2
    /\ Len(input.matchesList) = 2
    /\ before # Result
    /\ Result = EndState(input)

\* the number of tokens of the text JSON.stringify gives
Size(s) == Len(JSONstringify(s))

\* C11: a call that deletes unreferenced specification-records, removes a
\* match or clears the contacts returns a state whose text is shorter than
\* that of its argument.
C11_Steps123Shrink ==
    (calls > 0 /\ (before.gameSpecs # {} \/ before.matchesList # <<>>
                      \/ before.phoneNumberToContact # {})) =>
        Size(Result) < Size(before)

C11_Witness ==
    /\ calls > 0
    /\ Orphans(before) = {}
    /\ Len(before.matchesList) = 2
    /\ before.gameSpecs # {}
    /\ Size(Result) = Size(before) - 1

\* C18 as claimed: a call leaves the object passed to it as it was.
C18_ArgumentNotModified == calls > 0 => heap[argRef] = before

\* C18: a call that deletes specification-records, removes a match or
\* clears the contacts changes the object passed to it and returns that
\* object; only a call on a state with none of these leaves its argument as
\* it was and returns another object.
C18_ModifiesArgumentUnlessLastBranch ==
    calls > 0 =>
        IF before.gameSpecs = {} /\ before.matchesList = <<>>
              /\ before.phoneNumberToContact = {}
        THEN heap[argRef] = before
        ELSE /\ state = argRef
             /\ heap[argRef] = Result
             /\ heap[argRef] # before

C18_Witness ==
    /\ calls = 1
    /\ state = argRef
    /\ heap[argRef] # before
    /\ heap[argRef] = Result
    /\ input = before

\* C12: when the probe failed (no backend, or the test write threw), the key
\* is never read and never written, however many state changes follow.
C12_NoStorageAccessWhenProbeFails ==
    (pc # "load" /\ backend # "works") =>
        /\ ~ hasLocalStorage
        /\ ~ keyRead
        /\ ~ keyWritten
        /\ writes = 0
        /\ persistedOldStore = <<>>

C12_Witness ==
    /\ backend = "throws"
    /\ changes = 2
    /\ REDUX_STATE_LOCAL_STORAGE_KEY \in DOMAIN localStorage
    /\ Stored # <<>>
    /\ ~ keyRead
    /\ ~ keyWritten

\* C13 as claimed: when the probe failed, no listener is registered.
C13_NoListenerWhenProbeFails == (pc = "idle" /\ ~ hasLocalStorage) => ~ subscribed

\* C13: when the probe failed, the listener is registered all the same, and
\* each of its runs returns without a save.
C13_ListenerRegisteredButIdle ==
    (pc = "idle" /\ ~ hasLocalStorage) =>
        /\ subscribed
        /\ lastRun \in {"none", "skipped"}
        /\ (changes > 0 => lastRun = "skipped")
        /\ writes = 0
        /\ calls = 0

C13_Witness ==
    /\ pc = "idle"
    /\ backend = "absent"
    /\ ~ hasLocalStorage
    /\ subscribed
    /\ changes = 1
    /\ lastRun = "skipped"

\* C19: after a listener run whose first save succeeded, the text stored is
\* that of the live state, and JSON.parse of it gives the live state back.
C19_SavedSnapshotIsLiveState ==
    (pc = "idle" /\ lastRun = "saved" /\ calls = 0) =>
        /\ Stored = JSONstringify(heap["live"])
        /\ parses(Stored)
        /\ JSONparse(Stored) = heap["live"]

C19_Witness ==
    /\ pc = "idle"
    /\ lastRun = "saved"
    /\ calls = 0
    /\ changes = 2
    /\ heap["live"].gameSpecs # {}
    /\ heap["live"].matchesList # <<>>
    /\ JSONparse(Stored) = heap["live"]

(* ------------------- claims on dispatch and the window ------------------ *)
DispatchOps == {"dispatch", "dispatchAgain"}

WindowEvents == {"resize", "orientationchange"}

\* the window event was given to handleResize
Handled == op \in WindowEvents /\ ~ isInUnitTests

\* C14: dispatch of an object with no key or with two or more keys throws
\* before store.dispatch is called: the state is as it was and no listener
\* runs; for an object with one key k the store receives the action with
\* type = k.
C14_DispatchNeedsExactlyOneKey ==
    op \in DispatchOps =>
        IF Cardinality(actionType) = 1
        THEN /\ ~ threw
             /\ dispatches = 1
             /\ notified
             /\ \A k \in actionType : received["type"] = k
             /\ heap["live"] = reducer(stateWas, received)
        ELSE /\ threw
             /\ dispatches = 0
             /\ ~ notified
             /\ received = <<>>
             /\ heap["live"] = stateWas

C14_Witness ==
    /\ op = "dispatch"
    /\ actionType = {"setWindowDimensions", "setMyUser"}
    /\ threw
    /\ stateWas.windowDimensions # <<>>
    /\ heap["live"] = stateWas

\* C15: a resize or orientation-change event that finds the window as wide
\* and as high as the stored dimensions dispatches nothing, and setDimensions
\* dispatches only when the stored dimensions are missing or differ.
C15_NoDispatchWhenDimensionsUnchanged ==
    /\ (op \in WindowEvents /\ stateWas.windowDimensions = window) =>
          (dispatches = 0 /\ heap["live"] = stateWas)
    /\ (op \in WindowEvents \cup {"timer"} /\ dispatches > 0) =>
          /\ stateWas.windowDimensions # window
          /\ dispatches = 1
          /\ received = [setWindowDimensions |-> window, type |-> "setWindowDimensions"]

C15_Witness ==
    /\ op = "resize"
    /\ ~ isInUnitTests
    /\ ~ wasThrottled
    /\ stateWas.windowDimensions = window
    /\ dispatches = 0
    /\ timers = 1

\* C16: a window event that arrives while the timer is pending does nothing
\* (no dispatch, no timer); the timer's expiry dispatches one update if the
\* stored dimensions are not the window's and none otherwise, and ends the
\* throttle, so that the next event is handled.
C16_LeadingAndTrailingThrottle ==
    /\ (Handled /\ wasThrottled) =>
          /\ dispatches = 0
          /\ timers = timersWere
          /\ isThrottled
          /\ heap["live"] = stateWas
    /\ op = "timer" =>
          /\ dispatches = (IF stateWas.windowDimensions # window THEN 1 ELSE 0)
          /\ heap["live"].windowDimensions = window
          /\ timers = timersWere - 1
          /\ ~ isThrottled
    /\ (Handled /\ ~ wasThrottled) =>
          /\ dispatches = (IF stateWas.windowDimensions # window THEN 1 ELSE 0)
          /\ heap["live"].windowDimensions = window
          /\ isThrottled

C16_Witness ==
    /\ op = "timer"
    /\ wasThrottled
    /\ stateWas.windowDimensions # <<>>
    /\ stateWas.windowDimensions # window
    /\ dispatches = 1
    /\ ~ isThrottled

\* C17: at most one timer is pending, and one is pending exactly when
\* isThrottled is true.
C17_OneTimerIffThrottled == timers = (IF isThrottled THEN 1 ELSE 0)

C17_Witness ==
    /\ op = "orientationchange"
    /\ ~ isInUnitTests
    /\ wasThrottled
    /\ isThrottled
    /\ timers = 1

\* C20: a successful dispatch leaves the caller's object with the key `type`
\* added, two keys in all, and a second dispatch of that object throws and
\* nothing reaches the store.
C20_SecondDispatchOfSameObjectFails ==
    /\ (op \in DispatchOps /\ ~ threw) =>
          /\ "type" \notin actionType
          /\ DOMAIN action = actionType \cup {"type"}
          /\ Cardinality(DOMAIN action) = 2
          /\ action = received
    /\ (op = "dispatchAgain" /\ "type" \in actionType) =>
          /\ threw
          /\ dispatches = 0
          /\ received = <<>>
          /\ DOMAIN action = actionType
          /\ heap["live"] = stateWas

C20_Witness ==
    /\ op = "dispatchAgain"
    /\ actionType = {"setMyUser", "type"}
    /\ threw
    /\ dispatches = 0
    /\ heap["live"].myUser = 1

====
